---------------------------- MODULE Spec2Model ----------------------------
(***************************************************************************)
(* Model of bevy_parallaxation2d: the Depth value type, the               *)
(* ParallaxContext configuration, the placement system                    *)
(* (process_new_parallax_layer_data), the per-frame motion system         *)
(* (move_parallax_layers) and the schedule that ParallaxPlugin::build     *)
(* registers.                                                              *)
(*                                                                         *)
(* f32 values are modelled as exact rationals [n, d] in lowest terms with  *)
(* d > 0; rounding, infinities and NaN are not modelled.                   *)
(***************************************************************************)
EXTENDS Integers, Sequences, FiniteSets, TLC

VARIABLES
    context,            \* the ParallaxContext resource
    call,               \* the last call of a pure function: [op, in, out]
    layers,             \* the layer entities, in query iteration order
    cameras,            \* number of entities carrying ParallaxCamera
    camera_translation, \* Transform.translation.truncate() of the camera
    pc,                 \* position of the frame loop
    ran,                \* Update systems that already ran this frame
    queue,              \* deferred commands issued by initial_load_parallax_layers
    spawned             \* number of layers spawned so far

vars == <<context, call, layers, cameras, camera_translation, pc, ran, queue, spawned>>

-----------------------------------------------------------------------------
(* Exact rational arithmetic standing in for f32.                          *)

Abs(i) == IF i < 0 THEN -i ELSE i

RECURSIVE GCD(_, _)
GCD(a, b) == IF b = 0 THEN a ELSE GCD(b, a % b)

\* n/d in lowest terms, d # 0
Rat(n, d) ==
    LET g == GCD(Abs(n), Abs(d))
        s == IF d < 0 THEN -1 ELSE 1
    IN  [n |-> (s * n) \div g, d |-> (s * d) \div g]

IntR(i) == [n |-> i, d |-> 1]

RAdd(a, b) == Rat(a.n * b.d + b.n * a.d, a.d * b.d)
RSub(a, b) == Rat(a.n * b.d - b.n * a.d, a.d * b.d)
RMul(a, b) == Rat(a.n * b.n, a.d * b.d)
RDiv(a, b) == Rat(a.n * b.d, a.d * b.n)
RLt(a, b) == a.n * b.d < b.n * a.d
RLe(a, b) == a.n * b.d <= b.n * a.d
RGt(a, b) == RLt(b, a)
RGe(a, b) == RLe(b, a)

Zero == IntR(0)
One == IntR(1)
Two == IntR(2)

Vec2(x, y) == [x |-> x, y |-> y]
VecZERO == Vec2(Zero, Zero)
VAdd(a, b) == Vec2(RAdd(a.x, b.x), RAdd(a.y, b.y))
VSub(a, b) == Vec2(RSub(a.x, b.x), RSub(a.y, b.y))
VDiv(a, b) == Vec2(RDiv(a.x, b.x), RDiv(a.y, b.y))
VInt(x, y) == Vec2(IntR(x), IntR(y))

\* Option<T>
None == <<>>
Some(x) == <<x>>

-----------------------------------------------------------------------------
(* flags.rs: ParallaxFlags, a bit set; a flags value is the set of its     *)
(* set bits.                                                               *)

NONE == {}
REPEAT_X_AXIS == {"REPEAT_X_AXIS"}
REPEAT_Y_AXIS == {"REPEAT_Y_AXIS"}
LOCKED_X_AXIS == {"LOCKED_X_AXIS"}
LOCKED_Y_AXIS == {"LOCKED_Y_AXIS"}
OFFSET_TO_CAMERA == {"OFFSET_TO_CAMERA"}
HORIZONTAL_OFFSET == {"HORIZONTAL_OFFSET"}
POSITIVE_OFFSET == {"POSITIVE_OFFSET"}
OFFSET_CAMERA_LEFT == OFFSET_TO_CAMERA \cup HORIZONTAL_OFFSET
OFFSET_CAMERA_RIGHT == OFFSET_CAMERA_LEFT \cup POSITIVE_OFFSET
OFFSET_CAMERA_BOTTOM == OFFSET_TO_CAMERA
OFFSET_CAMERA_TOP == OFFSET_CAMERA_BOTTOM \cup POSITIVE_OFFSET
DEFAULT == REPEAT_X_AXIS \cup OFFSET_CAMERA_BOTTOM

contains(flags, other) == other \subseteq flags

-----------------------------------------------------------------------------
(* resources.rs: ParallaxConfig and ParallaxContext.                       *)

ParallaxConfig(scale_, near, neutral, far) ==
    [scale |-> scale_, near_depth |-> near, neutral_depth |-> neutral, far_depth |-> far]

ParallaxConfig_default == ParallaxConfig(One, IntR(-10), Zero, IntR(100))

ParallaxConfig_convert_depth(config, depth) == RSub(config.neutral_depth, depth)

DEPTH_FACTOR_MIN == 0
DEPTH_FACTOR_MAX == 100

ParallaxContext_new_always_converting(config) ==
    [config EXCEPT
        !.near_depth = ParallaxConfig_convert_depth(config, config.near_depth),
        !.far_depth = ParallaxConfig_convert_depth(config, config.far_depth)]

ParallaxContext_new(config) ==
    IF RLt(config.near_depth, config.far_depth)
    THEN [config EXCEPT
            !.near_depth = ParallaxConfig_convert_depth(config, config.near_depth),
            !.far_depth = ParallaxConfig_convert_depth(config, config.far_depth)]
    ELSE config

convert_depth(ctx, depth) == ParallaxConfig_convert_depth(ctx, depth)

\* the accessor used by Depth::to_world_with_factor
scale(ctx) == ctx.scale

calculate_depth_factor_inverted(ctx, world_depth) ==
    LET factor ==
            IF RLe(world_depth, ctx.far_depth) THEN IntR(DEPTH_FACTOR_MIN)
            ELSE IF RGe(world_depth, ctx.near_depth) THEN IntR(DEPTH_FACTOR_MAX)
            ELSE RDiv(RSub(ctx.near_depth, world_depth), ctx.near_depth)
    IN  RMul(factor, ctx.scale)

calculate_depth_factor_unscaled_caps(ctx, world_depth) ==
    IF RLe(world_depth, ctx.far_depth) THEN IntR(DEPTH_FACTOR_MIN)
    ELSE IF RGe(world_depth, ctx.near_depth) THEN IntR(DEPTH_FACTOR_MAX)
    ELSE RMul(RDiv(ctx.near_depth, RSub(ctx.near_depth, world_depth)), ctx.scale)

calculate_depth_factor(ctx, world_depth) ==
    LET factor ==
            IF RLe(world_depth, ctx.far_depth) THEN IntR(DEPTH_FACTOR_MIN)
            ELSE IF RGe(world_depth, ctx.near_depth) THEN IntR(DEPTH_FACTOR_MAX)
            ELSE RDiv(ctx.near_depth, RSub(ctx.near_depth, world_depth))
    IN  RMul(factor, ctx.scale)

-----------------------------------------------------------------------------
(* plugin.rs: ParallaxPlugin, a wrapper of a ParallaxConfig.               *)

\* the panic of ParallaxPlugin::new
PluginPanic == [panic |-> "Parallax near depth should be less than far depth."]

ParallaxPlugin_new_accepting_equal(near_depth, far_depth) ==
    IF RGt(near_depth, far_depth) THEN PluginPanic
    ELSE ParallaxConfig(One, near_depth,
                        RDiv(RAdd(near_depth, far_depth), Two), far_depth)

\* ParallaxPlugin::new; PluginPanic when near_depth >= far_depth
ParallaxPlugin_new(near_depth, far_depth) ==
    IF RGe(near_depth, far_depth) THEN PluginPanic
    ELSE ParallaxConfig(One, near_depth,
                        RDiv(RAdd(near_depth, far_depth), Two), far_depth)

set_neutral_depth(plugin, neutral_depth) == [plugin EXCEPT !.neutral_depth = neutral_depth]

set_scale(plugin, scale_) == [plugin EXCEPT !.scale = scale_]

-----------------------------------------------------------------------------
(* depth.rs: Depth.                                                        *)

Parallax(depth_) == [tag |-> "Parallax", depth |-> depth_]
WorldWithFactor(depth_, factor) ==
    [tag |-> "WorldWithFactor", depth |-> depth_, factor |-> factor]

from_parallax(depth_) == Parallax(depth_)
from_world(depth_, factor) == WorldWithFactor(depth_, factor)
Depth_default == Parallax(Zero)

depth(self) == self.depth

depth_factor(self) ==
    IF self.tag = "Parallax" THEN None ELSE Some(self.factor)

to_world_with_factor_rescaling(self, ctx) ==
    LET d == IF self.tag = "Parallax"
             THEN RMul(convert_depth(ctx, self.depth), scale(ctx))
             ELSE self.depth
    IN  WorldWithFactor(d, calculate_depth_factor(ctx, d))

to_world_with_factor_unscaled(self, ctx) ==
    IF self.tag = "Parallax"
    THEN LET d == convert_depth(ctx, self.depth)
         IN  WorldWithFactor(d, calculate_depth_factor(ctx, d))
    ELSE self

to_world_with_factor(self, ctx) ==
    IF self.tag = "Parallax"
    THEN LET d == RMul(convert_depth(ctx, self.depth), scale(ctx))
             factor == calculate_depth_factor(ctx, d)
         IN  WorldWithFactor(d, factor)
    ELSE self

\* impl PartialEq for Depth
eq(self, other) ==
    IF self.tag = other.tag THEN self.depth = other.depth ELSE FALSE

\* f32::partial_cmp on non-NaN values
f32_partial_cmp(lhs, rhs) ==
    IF RLt(lhs, rhs) THEN Some("Less")
    ELSE IF lhs = rhs THEN Some("Equal")
    ELSE Some("Greater")

\* impl PartialOrd for Depth
partial_cmp_ignoring_tag(self, other) == f32_partial_cmp(self.depth, other.depth)

partial_cmp(self, other) ==
    IF self.tag = other.tag THEN f32_partial_cmp(self.depth, other.depth) ELSE None

\* the comparison operators PartialOrd derives from partial_cmp
lt(self, other) == partial_cmp(self, other) = Some("Less")
le(self, other) == partial_cmp(self, other) \in {Some("Less"), Some("Equal")}
gt(self, other) == partial_cmp(self, other) = Some("Greater")
ge(self, other) == partial_cmp(self, other) \in {Some("Greater"), Some("Equal")}

-----------------------------------------------------------------------------
(* systems.rs: translation_with_depth_and_flags.                           *)

translation_repeat_over_lock(translation, depth_, flags) ==
    IF depth_factor(depth_) = None THEN VecZERO
    ELSE LET f == depth_factor(depth_)[1]
             axis(t, locked, repeat) ==
                 IF contains(flags, repeat) THEN t
                 ELSE IF contains(flags, locked) THEN Zero
                 ELSE RSub(t, RMul(t, f))
         IN  Vec2(axis(translation.x, LOCKED_X_AXIS, REPEAT_X_AXIS),
                  axis(translation.y, LOCKED_Y_AXIS, REPEAT_Y_AXIS))

translation_without_fallback(translation, depth_, flags) ==
    LET f == IF depth_factor(depth_) = None THEN Zero ELSE depth_factor(depth_)[1]
        axis(t, locked, repeat) ==
            IF contains(flags, locked) THEN Zero
            ELSE IF ~contains(flags, repeat) THEN RSub(t, RMul(t, f))
            ELSE t
    IN  Vec2(axis(translation.x, LOCKED_X_AXIS, REPEAT_X_AXIS),
             axis(translation.y, LOCKED_Y_AXIS, REPEAT_Y_AXIS))

translation_with_depth_and_flags(translation, depth_, flags) ==
    IF depth_factor(depth_) = None
    THEN VecZERO    \* no depth factor is treated as 0.0
    ELSE LET f == depth_factor(depth_)[1]
             x == IF contains(flags, LOCKED_X_AXIS) THEN Zero
                  ELSE IF ~contains(flags, REPEAT_X_AXIS)
                       THEN RSub(translation.x, RMul(translation.x, f))
                       ELSE translation.x
             y == IF contains(flags, LOCKED_Y_AXIS) THEN Zero
                  ELSE IF ~contains(flags, REPEAT_Y_AXIS)
                       THEN RSub(translation.y, RMul(translation.y, f))
                       ELSE translation.y
         IN  Vec2(x, y)

-----------------------------------------------------------------------------
(* Inputs of the pure functions.                                           *)

\* translations have integer coordinates in -MaxT..MaxT
MaxT == 1

\* author-space depths, among them those of the tests of depth.rs
AuthorDepths == {-10, 0, 5, 10, 20, 100}

\* plugin configurations: ParallaxPlugin::default() and
\* ParallaxPlugin::new(near, far) with or without the two setters
PluginBounds == {<<-10, 100>>, <<0, 1>>}
PluginNeutrals == {-1, 0, 5}
PluginScales == {-5, 1, 2}

Plugins ==
    LET made == {ParallaxPlugin_new(IntR(b[1]), IntR(b[2])) : b \in PluginBounds}
        neutral == made \cup {set_neutral_depth(p, IntR(n)) : p \in made, n \in PluginNeutrals}
    IN  {ParallaxConfig_default} \cup {set_scale(p, IntR(s)) : p \in neutral, s \in PluginScales}

\* ParallaxConfig literals, as the crate's own tests build them: bounds that
\* are already world-space (near > far) and bounds that coincide
ConfigLiterals ==
    {ParallaxConfig(One, IntR(10), Zero, IntR(-100)),
     ParallaxConfig(Two, IntR(5), Zero, IntR(5))}

\* ParallaxPlugin::build inserts ParallaxContext::new(self.0)
Contexts == {ParallaxContext_new(p) : p \in Plugins \cup ConfigLiterals}

\* depths a caller can hold: from_parallax, from_world, Default
DepthInputs ==
    {from_parallax(IntR(v)) : v \in AuthorDepths}
    \cup {from_world(IntR(-10), One), from_world(IntR(50), IntR(-10)),
          from_world(IntR(10), Rat(1, 2)), from_world(Zero, Zero)}
    \cup {Depth_default}

\* world depths: fixed ones, and ones placed around the stored bounds
WorldDepths(ctx) ==
    {IntR(i) : i \in {-200, -100, -95, -30, -15, -2, -1, 0, 5, 10, 15, 30, 200}}
    \cup {ctx.far_depth, RAdd(ctx.far_depth, Rat(1, 2)),
          ctx.near_depth, RSub(ctx.near_depth, Rat(1, 200))}

Translations == {VInt(x, y) : x \in -MaxT..MaxT, y \in -MaxT..MaxT}

AxisFlags == SUBSET (REPEAT_X_AXIS \cup REPEAT_Y_AXIS \cup LOCKED_X_AXIS \cup LOCKED_Y_AXIS)

NoCall == [op |-> "none"]

-----------------------------------------------------------------------------
(* FnSpec: the pure functions applied to inputs drawn from the sets above. *)

World == <<layers, cameras, camera_translation, pc, ran, queue, spawned>>

WorldInit ==
    /\ layers = <<>>
    /\ cameras = 0
    /\ camera_translation = VecZERO
    /\ pc = "Main"
    /\ ran = {}
    /\ queue = <<>>
    /\ spawned = 0

FnInit ==
    /\ context \in Contexts
    /\ call = NoCall
    /\ WorldInit

\* the previous call, when it was a call of the same function
Last(op) == IF call.op = op THEN <<call.in, call.out>> ELSE <<>>

\* self.to_world_with_factor(&context) on a fresh depth, and then again on
\* the depth the previous call returned
Call_to_world_with_factor ==
    /\ call.op \in {"none", "to_world_with_factor"}
    /\ \E d \in (IF call.op = "none" THEN DepthInputs ELSE {call.out}) :
          call' = [op |-> "to_world_with_factor", in |-> d,
                   out |-> to_world_with_factor(d, context),
                   last |-> Last("to_world_with_factor")]
    /\ UNCHANGED <<context, World>>

\* context.calculate_depth_factor(w), once or twice in a row
Call_calculate_depth_factor ==
    /\ call.op = "none" \/ (call.op = "calculate_depth_factor" /\ call.last = <<>>)
    /\ \E w \in WorldDepths(context) :
          call' = [op |-> "calculate_depth_factor", in |-> w,
                   out |-> calculate_depth_factor(context, w),
                   last |-> Last("calculate_depth_factor")]
    /\ UNCHANGED <<context, World>>

Call_translation_with_depth_and_flags ==
    /\ call.op = "none"
    /\ \E t \in Translations, f \in AxisFlags,
          d \in {Depth_default, from_parallax(IntR(10)),
                 to_world_with_factor(from_parallax(IntR(10)), context),
                 from_world(Zero, Rat(1, 2)), from_world(Zero, One),
                 from_world(Zero, IntR(-2))} :
          call' = [op |-> "translation_with_depth_and_flags",
                   in |-> [translation |-> t, depth |-> d, flags |-> f],
                   out |-> translation_with_depth_and_flags(t, d, f)]
    /\ UNCHANGED <<context, World>>

\* ==, !=, <, <=, >, >= and partial_cmp on two depths, resolved or not
Call_compare ==
    /\ call.op = "none"
    /\ \E a, b \in DepthInputs \cup {to_world_with_factor(d, context) : d \in DepthInputs} :
          call' = [op |-> "compare", in |-> <<a, b>>,
                   out |-> [eq |-> eq(a, b), ne |-> ~eq(a, b),
                            lt |-> lt(a, b), le |-> le(a, b),
                            gt |-> gt(a, b), ge |-> ge(a, b),
                            partial_cmp |-> partial_cmp(a, b)]]
    /\ UNCHANGED <<context, World>>

\* arguments of ParallaxPlugin::new, in order and not
PluginArgs == {-10, 0, 1, 100}

\* ParallaxPlugin::new(near, far)
Call_ParallaxPlugin_new ==
    /\ call.op = "none"
    /\ \E near, far \in PluginArgs :
          call' = [op |-> "ParallaxPlugin_new", in |-> <<IntR(near), IntR(far)>>,
                   out |-> ParallaxPlugin_new(IntR(near), IntR(far))]
    /\ UNCHANGED <<context, World>>

\* the plugin a call of new or of a setter returned
IsPlugin ==
    /\ call.op \in {"ParallaxPlugin_new", "set_neutral_depth", "set_scale"}
    /\ call.out # PluginPanic

\* plugin.set_neutral_depth(n) on the plugin the previous call returned
Call_set_neutral_depth ==
    /\ IsPlugin
    /\ \E n \in PluginNeutrals :
          call' = [op |-> "set_neutral_depth", in |-> <<call.out, IntR(n)>>,
                   out |-> set_neutral_depth(call.out, IntR(n))]
    /\ UNCHANGED <<context, World>>

\* plugin.set_scale(s) on the plugin the previous call returned
Call_set_scale ==
    /\ IsPlugin
    /\ \E sc \in PluginScales :
          call' = [op |-> "set_scale", in |-> <<call.out, IntR(sc)>>,
                   out |-> set_scale(call.out, IntR(sc))]
    /\ UNCHANGED <<context, World>>

\* ParallaxContext::new(config) on a configuration of a plugin or a literal,
\* and on the plugin the previous call returned (ParallaxPlugin::build)
Call_ParallaxContext_new ==
    /\ call.op = "none" \/ IsPlugin
    /\ \E config \in (IF call.op = "none" THEN Plugins \cup ConfigLiterals ELSE {call.out}) :
          call' = [op |-> "ParallaxContext_new", in |-> config,
                   out |-> ParallaxContext_new(config)]
    /\ UNCHANGED <<context, World>>

FnNext ==
    \/ Call_to_world_with_factor
    \/ Call_calculate_depth_factor
    \/ Call_translation_with_depth_and_flags
    \/ Call_compare
    \/ Call_ParallaxPlugin_new
    \/ Call_set_neutral_depth
    \/ Call_set_scale
    \/ Call_ParallaxContext_new

FnSpec == FnInit /\ [][FnNext]_vars

-----------------------------------------------------------------------------
(* Spec: the application.  A frame runs the Update schedule                *)
(* (initial_load_parallax_layers and process_new_parallax_layer_data, in   *)
(* either order, then the deferred commands) and then the PostUpdate       *)
(* schedule (move_parallax_layers).  Between frames the application spawns *)
(* and despawns cameras and layers and moves the camera, and the asset     *)
(* server finishes loading images.                                         *)

MaxSpawns == 2
MaxCameras == 2

\* OrthographicProjection.area.half_size() * 2.0 of the camera
CameraSize == VInt(8, 6)

CameraPositions == {VecZERO, VInt(2, 1), VInt(2, -1), VInt(-4, 3)}

\* the contexts of the application: the default plugin, and
\* ParallaxPlugin::new(-10, 100).set_neutral_depth(5).set_scale(2)
AppContexts ==
    {ParallaxContext_new(ParallaxConfig_default),
     ParallaxContext_new(set_scale(set_neutral_depth(
         ParallaxPlugin_new(IntR(-10), IntR(100)), IntR(5)), Two))}

\* ParallaxLayer components the application spawns; image is the size of the
\* image the path names, transform the z of a Transform spawned along with it
LayerInputs ==
    {[depth |-> from_parallax(IntR(20)), offset |-> VInt(2, -1), flags |-> NONE,
      image |-> VInt(4, 2), transform |-> None],
     [depth |-> from_world(IntR(10), Rat(1, 2)), offset |-> VecZERO, flags |-> DEFAULT,
      image |-> VInt(4, 2), transform |-> None],
     [depth |-> from_parallax(IntR(5)), offset |-> VInt(2, -1),
      flags |-> REPEAT_X_AXIS \cup LOCKED_Y_AXIS \cup OFFSET_CAMERA_RIGHT,
      image |-> VInt(10, 3), transform |-> None],
     [depth |-> Depth_default, offset |-> VecZERO, flags |-> LOCKED_X_AXIS,
      image |-> VInt(4, 2), transform |-> Some(IntR(3))]}

Vec3(v, z) == [x |-> v.x, y |-> v.y, z |-> z]

CameraPanic == "panic: There should be exactly one parallax camera"
ImagePanic == "panic: Image should be loaded"

\* the components of a layer entity
HasParallaxLayer(e) == e.stage = "ParallaxLayer"
HasParallaxLayerData(e) == e.stage \in {"ParallaxLayerData", "Placed"}
AddedParallaxLayerData_every_frame(e) == e.stage \in {"ParallaxLayerData", "Placed"}

\* Added<ParallaxLayerData>: inserted since process_new_parallax_layer_data ran
AddedParallaxLayerData(e) == e.stage = "ParallaxLayerData"

Indices == 1..Len(layers)

Init ==
    /\ context \in AppContexts
    /\ call = NoCall
    /\ WorldInit

\* commands.spawn(Camera2dBundle::default()).insert(ParallaxCamera), applied
\* between two frames or, issued by a system of Update, when Update ends
SpawnCamera ==
    /\ pc \in {"Main", "PostUpdate"}
    /\ cameras < MaxCameras
    /\ cameras' = cameras + 1
    /\ UNCHANGED <<context, call, layers, camera_translation, pc, ran, queue, spawned>>

DespawnCamera ==
    /\ pc \in {"Main", "PostUpdate"}
    /\ cameras > 0
    /\ cameras' = cameras - 1
    /\ UNCHANGED <<context, call, layers, camera_translation, pc, ran, queue, spawned>>

\* the application moves the camera (examples/mountains.rs, move_camera)
MoveCamera ==
    /\ pc = "Main"
    /\ cameras > 0
    /\ \E p \in CameraPositions \ {camera_translation} : camera_translation' = p
    /\ UNCHANGED <<context, call, layers, cameras, pc, ran, queue, spawned>>

\* the entity commands.spawn(ParallaxLayer { .. }) creates, or
\* commands.spawn((ParallaxLayer { .. }, TransformBundle { .. }))
SpawnedLayer(id, l) ==
    [id |-> id, stage |-> "ParallaxLayer",
     depth |-> l.depth, offset |-> l.offset, flags |-> l.flags,
     image |-> l.image, image_loaded |-> FALSE,
     transform |-> IF l.transform = None THEN None
                   ELSE Some([translation |-> Vec3(VecZERO, l.transform[1]),
                              scale |-> Vec2(One, One)]),
     sampler |-> None, material |-> None]

\* commands.spawn(ParallaxLayer { .. })
SpawnLayer ==
    /\ pc = "Main"
    /\ spawned < MaxSpawns
    /\ \E l \in LayerInputs : layers' = Append(layers, SpawnedLayer(spawned + 1, l))
    /\ spawned' = spawned + 1
    /\ UNCHANGED <<context, call, cameras, camera_translation, pc, ran, queue>>

\* the asset server finishes loading the image of a layer
ImageLoaded ==
    /\ pc = "Main"
    /\ \E i \in Indices :
          /\ HasParallaxLayerData(layers[i])
          /\ ~layers[i].image_loaded
          /\ layers' = [layers EXCEPT ![i].image_loaded = TRUE]
    /\ UNCHANGED <<context, call, cameras, camera_translation, pc, ran, queue, spawned>>

StartFrame ==
    /\ pc = "Main"
    /\ pc' = "Update"
    /\ ran' = {}
    /\ UNCHANGED <<context, call, layers, cameras, camera_translation, queue, spawned>>

\* systems.rs: initial_load_parallax_layers; the insert and the remove are
\* deferred commands
RECURSIVE LoadCommands(_, _)
LoadCommands(ls, i) ==
    IF i > Len(ls) THEN <<>>
    ELSE (IF HasParallaxLayer(ls[i]) THEN <<ls[i].id>> ELSE <<>>) \o LoadCommands(ls, i + 1)

initial_load_parallax_layers ==
    /\ pc = "Update"
    /\ "initial_load_parallax_layers" \notin ran
    /\ queue' = queue \o LoadCommands(layers, 1)
    /\ ran' = ran \cup {"initial_load_parallax_layers"}
    /\ UNCHANGED <<context, call, layers, cameras, camera_translation, pc, spawned>>

\* what the deferred commands of initial_load_parallax_layers do to an entity:
\* insert ParallaxLayerData and a MaterialMesh2dBundle { ..default() }
\* (overwriting a Transform the entity had), remove ParallaxLayer
LoadedLayer(e) ==
    [e EXCEPT !.stage = "ParallaxLayerData",
              !.transform = Some([translation |-> Vec3(VecZERO, Zero),
                                  scale |-> Vec2(One, One)]),
              !.material = Some([repeat_scale |-> Vec2(One, One),
                                 depth |-> VecZERO, offset |-> VecZERO])]

InQueue(id) == \E k \in 1..Len(queue) : queue[k] = id

\* the end of the Update schedule applies the deferred commands
apply_deferred ==
    /\ pc = "Update"
    /\ ran = {"initial_load_parallax_layers", "process_new_parallax_layer_data"}
    /\ layers' = [i \in Indices |->
                    IF InQueue(layers[i].id) THEN LoadedLayer(layers[i]) ELSE layers[i]]
    /\ queue' = <<>>
    /\ pc' = "PostUpdate"
    /\ UNCHANGED <<context, call, cameras, camera_translation, ran, spawned>>

PlacedLayer_without_compensation(e, ctx, camera_size) ==
    LET image_dimensions == e.image
        depth1 == to_world_with_factor(e.depth, ctx)
        factor == depth_factor(depth1)[1]
        repeat_x == contains(e.flags, REPEAT_X_AXIS)
        repeat_y == contains(e.flags, REPEAT_Y_AXIS)
        depth_factor2 == Vec2(IF repeat_x THEN factor ELSE Zero,
                              IF repeat_y THEN factor ELSE Zero)
        scaled_image_dimensions ==
            Vec2(IF repeat_x THEN camera_size.x ELSE image_dimensions.x,
                 IF repeat_y THEN camera_size.y ELSE image_dimensions.y)
        tile_mode_x == IF repeat_x THEN "Repeat" ELSE "ClampToEdge"
        tile_mode_y == IF repeat_y THEN "Repeat" ELSE "ClampToEdge"
        camera_translation1 == translation_with_depth_and_flags(e.offset, depth1, e.flags)
        offset1 == e.offset
        offset2 ==
            IF contains(e.flags, HORIZONTAL_OFFSET)
            THEN Vec2(RDiv(RSub(camera_size.x, scaled_image_dimensions.x), Two), Zero)
            ELSE Vec2(Zero, RDiv(RSub(camera_size.y, scaled_image_dimensions.y), Two))
        offset3 ==
            IF contains(e.flags, OFFSET_TO_CAMERA)
            THEN IF contains(e.flags, POSITIVE_OFFSET)
                 THEN VAdd(offset1, offset2)
                 ELSE VSub(offset1, offset2)
            ELSE offset1
    IN  [e EXCEPT !.stage = "Placed",
                  !.depth = depth1,
                  !.offset = offset3,
                  !.sampler = Some(<<tile_mode_x, tile_mode_y>>),
                  !.transform = Some([translation |-> Vec3(offset3, depth(depth1)),
                                      scale |-> scaled_image_dimensions]),
                  !.material = Some([repeat_scale |-> VDiv(scaled_image_dimensions, image_dimensions),
                                     depth |-> VDiv(depth_factor2, scaled_image_dimensions),
                                     offset |-> offset3])]

PlacedLayer_swapped_sign(e, ctx, camera_size) ==
    LET image_dimensions == e.image
        depth1 == to_world_with_factor(e.depth, ctx)
        factor == depth_factor(depth1)[1]
        repeat_x == contains(e.flags, REPEAT_X_AXIS)
        repeat_y == contains(e.flags, REPEAT_Y_AXIS)
        depth_factor2 == Vec2(IF repeat_x THEN factor ELSE Zero,
                              IF repeat_y THEN factor ELSE Zero)
        scaled_image_dimensions ==
            Vec2(IF repeat_x THEN camera_size.x ELSE image_dimensions.x,
                 IF repeat_y THEN camera_size.y ELSE image_dimensions.y)
        tile_mode_x == IF repeat_x THEN "Repeat" ELSE "ClampToEdge"
        tile_mode_y == IF repeat_y THEN "Repeat" ELSE "ClampToEdge"
        camera_translation1 == translation_with_depth_and_flags(e.offset, depth1, e.flags)
        offset1 == VSub(e.offset, camera_translation1)
        offset2 ==
            IF contains(e.flags, HORIZONTAL_OFFSET)
            THEN Vec2(RDiv(RSub(camera_size.x, scaled_image_dimensions.x), Two), Zero)
            ELSE Vec2(Zero, RDiv(RSub(camera_size.y, scaled_image_dimensions.y), Two))
        offset3 ==
            IF contains(e.flags, OFFSET_TO_CAMERA)
            THEN IF contains(e.flags, POSITIVE_OFFSET)
                 THEN VSub(offset1, offset2)
                 ELSE VAdd(offset1, offset2)
            ELSE offset1
    IN  [e EXCEPT !.stage = "Placed",
                  !.depth = depth1,
                  !.offset = offset3,
                  !.sampler = Some(<<tile_mode_x, tile_mode_y>>),
                  !.transform = Some([translation |-> Vec3(offset3, depth(depth1)),
                                      scale |-> scaled_image_dimensions]),
                  !.material = Some([repeat_scale |-> VDiv(scaled_image_dimensions, image_dimensions),
                                     depth |-> VDiv(depth_factor2, scaled_image_dimensions),
                                     offset |-> offset3])]

\* systems.rs: the body of the loop of process_new_parallax_layer_data
PlacedLayer(e, ctx, camera_size) ==
    LET image_dimensions == e.image
        depth1 == to_world_with_factor(e.depth, ctx)
        factor == depth_factor(depth1)[1]
        repeat_x == contains(e.flags, REPEAT_X_AXIS)
        repeat_y == contains(e.flags, REPEAT_Y_AXIS)
        depth_factor2 == Vec2(IF repeat_x THEN factor ELSE Zero,
                              IF repeat_y THEN factor ELSE Zero)
        scaled_image_dimensions ==
            Vec2(IF repeat_x THEN camera_size.x ELSE image_dimensions.x,
                 IF repeat_y THEN camera_size.y ELSE image_dimensions.y)
        tile_mode_x == IF repeat_x THEN "Repeat" ELSE "ClampToEdge"
        tile_mode_y == IF repeat_y THEN "Repeat" ELSE "ClampToEdge"
        camera_translation1 == translation_with_depth_and_flags(e.offset, depth1, e.flags)
        offset1 == VSub(e.offset, camera_translation1)
        offset2 ==
            IF contains(e.flags, HORIZONTAL_OFFSET)
            THEN Vec2(RDiv(RSub(camera_size.x, scaled_image_dimensions.x), Two), Zero)
            ELSE Vec2(Zero, RDiv(RSub(camera_size.y, scaled_image_dimensions.y), Two))
        offset3 ==
            IF contains(e.flags, OFFSET_TO_CAMERA)
            THEN IF contains(e.flags, POSITIVE_OFFSET)
                 THEN VAdd(offset1, offset2)
                 ELSE VSub(offset1, offset2)
            ELSE offset1
    IN  [e EXCEPT !.stage = "Placed",
                  !.depth = depth1,
                  !.offset = offset3,
                  !.sampler = Some(<<tile_mode_x, tile_mode_y>>),
                  !.transform = Some([translation |-> Vec3(offset3, depth(depth1)),
                                      scale |-> scaled_image_dimensions]),
                  !.material = Some([repeat_scale |-> VDiv(scaled_image_dimensions, image_dimensions),
                                     depth |-> VDiv(depth_factor2, scaled_image_dimensions),
                                     offset |-> offset3])]

\* systems.rs: process_new_parallax_layer_data
process_new_parallax_layer_data ==
    /\ pc = "Update"
    /\ "process_new_parallax_layer_data" \notin ran
    /\ IF cameras # 1
       THEN /\ pc' = CameraPanic
            /\ UNCHANGED <<layers, ran>>
       ELSE IF \E i \in Indices : AddedParallaxLayerData(layers[i]) /\ ~layers[i].image_loaded
       THEN /\ pc' = ImagePanic
            /\ UNCHANGED <<layers, ran>>
       ELSE /\ layers' = [i \in Indices |->
                            IF AddedParallaxLayerData(layers[i])
                            THEN PlacedLayer(layers[i], context, CameraSize)
                            ELSE layers[i]]
            /\ ran' = ran \cup {"process_new_parallax_layer_data"}
            /\ pc' = pc
    /\ UNCHANGED <<context, call, cameras, camera_translation, queue, spawned>>

\* systems.rs: the body of the loop of move_parallax_layers
MovedLayer(e, camera) ==
    LET translation == translation_with_depth_and_flags(camera, e.depth, e.flags)
    IN  [e EXCEPT !.transform = Some([e.transform[1] EXCEPT
            !.translation = Vec3(VAdd(translation, e.offset), depth(e.depth))])]

move_parallax_layers_first_camera ==
    /\ pc = "PostUpdate"
    /\ IF cameras = 0
       THEN /\ pc' = CameraPanic
            /\ UNCHANGED layers
       ELSE /\ layers' = [i \in Indices |->
                            IF HasParallaxLayerData(layers[i])
                            THEN MovedLayer(layers[i], camera_translation)
                            ELSE layers[i]]
            /\ pc' = "Main"
    /\ UNCHANGED <<context, call, cameras, camera_translation, ran, queue, spawned>>

\* systems.rs: move_parallax_layers
move_parallax_layers ==
    /\ pc = "PostUpdate"
    /\ IF cameras # 1
       THEN /\ pc' = CameraPanic
            /\ UNCHANGED layers
       ELSE /\ layers' = [i \in Indices |->
                            IF HasParallaxLayerData(layers[i])
                            THEN MovedLayer(layers[i], camera_translation)
                            ELSE layers[i]]
            /\ pc' = "Main"
    /\ UNCHANGED <<context, call, cameras, camera_translation, ran, queue, spawned>>

\* stands for f32::MAX; f32::MIN is its negation
F32_MAX == 1000000

RemoveAt(ls, i) == [k \in 1..(Len(ls) - 1) |-> IF k < i THEN ls[k] ELSE ls[k + 1]]

\* commands.rs: the scan of despawn_front_layer over ls[i..], the candidate
\* being found (an index, 0 for None) with depth min_depth
RECURSIVE FrontScan_comparing_values(_, _, _, _)
FrontScan_comparing_values(ls, i, found, min_depth) ==
    IF i > Len(ls) THEN found
    ELSE IF HasParallaxLayerData(ls[i]) /\ RGt(depth(ls[i].depth), depth(min_depth))
    THEN FrontScan_comparing_values(ls, i + 1, i, ls[i].depth)
    ELSE FrontScan_comparing_values(ls, i + 1, found, min_depth)

RECURSIVE FrontScan_replacing_ties(_, _, _, _)
FrontScan_replacing_ties(ls, i, found, min_depth) ==
    IF i > Len(ls) THEN found
    ELSE IF HasParallaxLayerData(ls[i]) /\ ge(ls[i].depth, min_depth)
    THEN FrontScan_replacing_ties(ls, i + 1, i, ls[i].depth)
    ELSE FrontScan_replacing_ties(ls, i + 1, found, min_depth)

RECURSIVE FrontScan(_, _, _, _)
FrontScan(ls, i, found, min_depth) ==
    IF i > Len(ls) THEN found
    ELSE IF HasParallaxLayerData(ls[i]) /\ gt(ls[i].depth, min_depth)
    THEN FrontScan(ls, i + 1, i, ls[i].depth)
    ELSE FrontScan(ls, i + 1, found, min_depth)

front_layer_entity(ls) == FrontScan(ls, 1, 0, from_world(IntR(-F32_MAX), One))

RECURSIVE BackScan(_, _, _, _)
BackScan(ls, i, found, max_depth) ==
    IF i > Len(ls) THEN found
    ELSE IF HasParallaxLayerData(ls[i]) /\ lt(ls[i].depth, max_depth)
    THEN BackScan(ls, i + 1, i, ls[i].depth)
    ELSE BackScan(ls, i + 1, found, max_depth)

back_layer_entity(ls) == BackScan(ls, 1, 0, from_world(IntR(F32_MAX), One))

\* commands.rs: the closure of despawn_front_layer applied to the world
DespawnedFront(ls) ==
    IF front_layer_entity(ls) = 0 THEN ls ELSE RemoveAt(ls, front_layer_entity(ls))

\* commands.rs: the closure of despawn_back_layer applied to the world
DespawnedBack(ls) ==
    IF back_layer_entity(ls) = 0 THEN ls ELSE RemoveAt(ls, back_layer_entity(ls))

\* commands.rs: despawn_front_layer, applied
despawn_front_layer ==
    /\ pc = "Main"
    /\ layers' = DespawnedFront(layers)
    /\ UNCHANGED <<context, call, cameras, camera_translation, pc, ran, queue, spawned>>

\* commands.rs: despawn_back_layer, applied
despawn_back_layer ==
    /\ pc = "Main"
    /\ layers' = DespawnedBack(layers)
    /\ UNCHANGED <<context, call, cameras, camera_translation, pc, ran, queue, spawned>>

Next ==
    \/ SpawnCamera
    \/ DespawnCamera
    \/ MoveCamera
    \/ SpawnLayer
    \/ ImageLoaded
    \/ StartFrame
    \/ initial_load_parallax_layers
    \/ process_new_parallax_layer_data
    \/ apply_deferred
    \/ move_parallax_layers
    \/ despawn_front_layer
    \/ despawn_back_layer

Spec == Init /\ [][Next]_vars

-----------------------------------------------------------------------------
(* PlacementSpec: one camera and one layer, the layer drawn from a wider   *)
(* set of ParallaxLayer values, run through the schedule of Spec; call     *)
(* keeps the ParallaxLayer as it was authored.                             *)

PlacementContexts ==
    AppContexts
    \cup {ParallaxContext_new(set_scale(set_neutral_depth(
              ParallaxPlugin_new(Zero, One), IntR(-1)), IntR(-5))),
          ParallaxContext_new(set_neutral_depth(
              ParallaxPlugin_new(IntR(-10), IntR(100)), IntR(5)))}

AuthoredDepths ==
    {from_parallax(IntR(v)) : v \in {-10, -1, 0, 5, 20}}
    \cup {from_world(IntR(10), Rat(1, 2)), from_world(Zero, IntR(-2))}

AuthoredOffsets == {VInt(2, -1), VInt(-4, 3)}

AuthoredFlags ==
    {axes \cup anchor :
        axes \in AxisFlags,
        anchor \in {NONE, OFFSET_CAMERA_LEFT, OFFSET_CAMERA_RIGHT,
                    OFFSET_CAMERA_BOTTOM, OFFSET_CAMERA_TOP}}

AuthoredLayers ==
    [depth : AuthoredDepths, offset : AuthoredOffsets, flags : AuthoredFlags,
     image : {VInt(10, 3)}, transform : {None, Some(IntR(3))}]

PlacementInit ==
    /\ context \in PlacementContexts
    /\ call = NoCall
    /\ layers = <<>>
    /\ cameras = 1
    /\ camera_translation = VecZERO
    /\ pc = "Main"
    /\ ran = {}
    /\ queue = <<>>
    /\ spawned = 0

\* commands.spawn(layer), once
SpawnAuthoredLayer ==
    /\ pc = "Main"
    /\ call.op = "none"
    /\ \E l \in AuthoredLayers :
          /\ layers' = <<SpawnedLayer(1, l)>>
          /\ call' = [op |-> "spawn", layer |-> l]
    /\ spawned' = 1
    /\ UNCHANGED <<context, cameras, camera_translation, pc, ran, queue>>

PlacementNext ==
    \/ SpawnAuthoredLayer
    \/ MoveCamera
    \/ ImageLoaded
    \/ StartFrame
    \/ initial_load_parallax_layers
    \/ process_new_parallax_layer_data
    \/ apply_deferred
    \/ move_parallax_layers

PlacementSpec == PlacementInit /\ [][PlacementNext]_vars

-----------------------------------------------------------------------------
(* CommandsSpec: the despawn commands applied to a world that holds a      *)
(* batch of ParallaxLayerData entities, as the tests of commands.rs build  *)
(* it with spawn_batch.                                                    *)

MaxLayers == 4

\* depth values of the layers of a batch: those of the tests of commands.rs,
\* and f32::MIN and f32::MAX
BatchDepths == {-12, 0, 4, 10, -F32_MAX, F32_MAX}

\* ParallaxLayerData { depth: Depth::from_world(d, 1.0), offset: Vec2::ZERO,
\* flags: ParallaxFlags::NONE }
BatchLayer(i, d) ==
    [id |-> i, stage |-> "Placed", depth |-> from_world(IntR(d), One),
     offset |-> VecZERO, flags |-> NONE, image |-> VInt(4, 2), image_loaded |-> TRUE,
     transform |-> None, sampler |-> None, material |-> None]

Batches ==
    UNION {{[i \in 1..n |-> BatchLayer(i, ds[i])] : ds \in [1..n -> BatchDepths]} :
           n \in 0..MaxLayers}

\* spawn_batch(..) applied: n layers in the world, no despawn command yet
CommandsInit ==
    /\ context = ParallaxContext_new(ParallaxConfig_default)
    /\ layers \in Batches
    /\ call = [op |-> "spawn_batch", batch |-> layers, n |-> Len(layers), applied |-> 0]
    /\ cameras = 0
    /\ camera_translation = VecZERO
    /\ pc = "Main"
    /\ ran = {}
    /\ queue = <<>>
    /\ spawned = Len(layers)

\* Commands::despawn_front_layer() followed by command_queue.apply(&mut world);
\* at most one command more than the batch had layers
Command_despawn_front_layer ==
    /\ call.op \in {"spawn_batch", "despawn_front_layer", "despawn_back_layer"}
    /\ call.applied <= call.n
    /\ layers' = DespawnedFront(layers)
    /\ call' = [call EXCEPT !.op = "despawn_front_layer", !.applied = @ + 1]
    /\ UNCHANGED <<context, cameras, camera_translation, pc, ran, queue, spawned>>

Command_despawn_back_layer ==
    /\ call.op \in {"spawn_batch", "despawn_front_layer", "despawn_back_layer"}
    /\ call.applied <= call.n
    /\ layers' = DespawnedBack(layers)
    /\ call' = [call EXCEPT !.op = "despawn_back_layer", !.applied = @ + 1]
    /\ UNCHANGED <<context, cameras, camera_translation, pc, ran, queue, spawned>>

CommandsNext ==
    \/ Command_despawn_front_layer
    \/ Command_despawn_back_layer

CommandsSpec == CommandsInit /\ [][CommandsNext]_vars

-----------------------------------------------------------------------------
(* Properties of the pure functions, checked under FnSpec.                 *)

IsCall(op) == call.op = op

\* the context of tests::depth_to_world_with_factor: neutral 5, scale 2,
\* default near and far
TestContext ==
    ParallaxContext_new(ParallaxConfig(Two, IntR(-10), IntR(5), IntR(100)))

C3_TestValues ==
    (IsCall("to_world_with_factor") /\ call.in.tag = "Parallax") =>
        /\ depth(call.out) = RSub(context.neutral_depth, call.in.depth)
        /\ context = TestContext =>
            /\ call.in = from_parallax(IntR(-10)) =>
                 call.out = WorldWithFactor(IntR(15), IntR(DEPTH_FACTOR_MAX * 2))
            /\ call.in = from_parallax(IntR(100)) =>
                 call.out = WorldWithFactor(IntR(-95), IntR(DEPTH_FACTOR_MIN * 2))
            /\ call.in = from_parallax(IntR(5)) =>
                 call.out = WorldWithFactor(Zero, Two)
            /\ call.in = from_parallax(IntR(20)) =>
                 call.out = WorldWithFactor(IntR(-15), One)
            /\ call.in = from_parallax(Zero) =>
                 call.out = WorldWithFactor(IntR(5), IntR(3))

\* C4: resolving a WorldWithFactor(d, f), produced by an earlier resolve or by
\* from_world, returns the same d and f: the second of two resolves returns
\* what the first returned
C4_ResolveIdempotent ==
    IsCall("to_world_with_factor") =>
        /\ call.in.tag = "WorldWithFactor" => call.out = call.in
        /\ call.last # <<>> => call.out = call.last[2]

\* a from_world depth whose factor is not the one the context computes, left
\* alone by two resolves under a scale other than 1
C4_Witness ==
    /\ IsCall("to_world_with_factor")
    /\ call.last # <<>>
    /\ call.last[1] = from_world(IntR(50), IntR(-10))
    /\ context.scale = Two
    /\ calculate_depth_factor(context, IntR(50)) # IntR(-10)
    /\ call.out = from_world(IntR(50), IntR(-10))

\* C5: calculate_depth_factor(w) is FACTOR_MIN * scale if w <= far_depth,
\* otherwise FACTOR_MAX * scale if w >= near_depth, otherwise
\* (near_depth / (near_depth - w)) * scale, against the stored bounds
C5_Piecewise ==
    IsCall("calculate_depth_factor") =>
        LET w == call.in
            near == context.near_depth
            far == context.far_depth
        IN  IF RLe(w, far)
            THEN call.out = RMul(IntR(0), context.scale)
            ELSE IF RGe(w, near)
            THEN call.out = RMul(IntR(100), context.scale)
            ELSE \* out = near / (near - w) * scale, cross-multiplied
                 RMul(call.out, RSub(near, w)) = RMul(near, context.scale)

\* the interpolation branch under a scale other than 1: near 15, w -15
C5_Witness ==
    /\ IsCall("calculate_depth_factor")
    /\ context = TestContext
    /\ call.in = IntR(-15)
    /\ call.out = One

\* C6 as stated: calculate_depth_factor is monotone non-increasing as
\* world_depth increases
C6_NonIncreasing ==
    (IsCall("calculate_depth_factor") /\ call.last # <<>>
        /\ RLe(call.last[1], call.in)) =>
            RGe(call.last[2], call.out)

\* C6 amended: with scale >= 0 and a stored near_depth > 0,
\* calculate_depth_factor is monotone non-decreasing as world_depth increases
\* below the near plane
C6_NonDecreasingBelowNear ==
    (IsCall("calculate_depth_factor") /\ call.last # <<>>
        /\ RGe(context.scale, Zero) /\ RGt(context.near_depth, Zero)
        /\ RLe(call.last[1], call.in) /\ RLt(call.in, context.near_depth)) =>
            RLe(call.last[2], call.out)

\* two depths strictly between the planes, the factor strictly growing
C6_Witness ==
    /\ IsCall("calculate_depth_factor") /\ call.last # <<>>
    /\ RGt(context.scale, Zero) /\ RGt(context.near_depth, Zero)
    /\ RLt(context.far_depth, call.last[1])
    /\ RLt(call.last[1], call.in) /\ RLt(call.in, context.near_depth)
    /\ RLt(call.last[2], call.out)

\* what C7 says one axis of the translation is, for the factor f
C7_Axis(t, f, flags, locked, repeat) ==
    IF locked \subseteq flags THEN Zero
    ELSE IF ~(repeat \subseteq flags) THEN RMul(t, RSub(One, f))
    ELSE t

\* C7: with a factor f, each axis of translation_with_depth_and_flags is 0
\* if LOCKED (also when REPEAT), otherwise t * (1 - f) if not REPEAT,
\* otherwise t; t = (1,1), f = 1/2 gives (1/2,1/2), (0,1/2) with LOCKED_X,
\* (0,0) with both locked, (1,1/2) with REPEAT_X
C7_Translation ==
    (IsCall("translation_with_depth_and_flags") /\ call.in.depth.tag = "WorldWithFactor") =>
        LET t == call.in.translation
            f == call.in.depth.factor
            flags == call.in.flags
        IN  /\ call.out.x = C7_Axis(t.x, f, flags, LOCKED_X_AXIS, REPEAT_X_AXIS)
            /\ call.out.y = C7_Axis(t.y, f, flags, LOCKED_Y_AXIS, REPEAT_Y_AXIS)
            /\ (t = VInt(1, 1) /\ f = Rat(1, 2)) =>
                /\ flags = NONE => call.out = Vec2(Rat(1, 2), Rat(1, 2))
                /\ flags = LOCKED_X_AXIS => call.out = Vec2(Zero, Rat(1, 2))
                /\ flags = LOCKED_X_AXIS \cup LOCKED_Y_AXIS => call.out = VecZERO
                /\ flags = REPEAT_X_AXIS => call.out = Vec2(One, Rat(1, 2))

\* X locked and repeating, Y free: (1,1) with factor 1/2 gives (0,1/2)
C7_Witness ==
    /\ IsCall("translation_with_depth_and_flags")
    /\ call.in.translation = VInt(1, 1)
    /\ call.in.depth.tag = "WorldWithFactor" /\ call.in.depth.factor = Rat(1, 2)
    /\ call.in.flags = LOCKED_X_AXIS \cup REPEAT_X_AXIS
    /\ call.out = Vec2(Zero, Rat(1, 2))

\* C8: with an unresolved Parallax depth translation_with_depth_and_flags
\* returns (0,0) for every translation and every flags
C8_NoFactorIsZero ==
    (IsCall("translation_with_depth_and_flags") /\ call.in.depth.tag = "Parallax") =>
        call.out = VecZERO

\* an unresolved depth, a translation that is not zero, both axes repeating
C8_Witness ==
    /\ IsCall("translation_with_depth_and_flags")
    /\ call.in.depth = from_parallax(IntR(10))
    /\ call.in.translation = VInt(1, -1)
    /\ call.in.flags = REPEAT_X_AXIS \cup REPEAT_Y_AXIS
    /\ call.out = VecZERO

\* C10: a WorldWithFactor depth and a Parallax depth, in either order and
\* whatever their values, are != and neither <, <=, > nor >=
C10_CrossTagIncomparable ==
    (IsCall("compare") /\ call.in[1].tag # call.in[2].tag) =>
        /\ ~call.out.eq /\ call.out.ne
        /\ ~call.out.lt /\ ~call.out.le /\ ~call.out.gt /\ ~call.out.ge
        /\ call.out.partial_cmp = None

\* a resolved depth on the left, an unresolved one of the same value on the
\* right
C10_Witness ==
    /\ IsCall("compare")
    /\ call.in[1].tag = "WorldWithFactor" /\ call.in[2].tag = "Parallax"
    /\ depth(call.in[1]) = depth(call.in[2])
    /\ ~call.out.eq /\ ~call.out.le /\ ~call.out.ge

\* C15: ParallaxPlugin::new(near, far) panics exactly when near >= far and
\* otherwise yields near_depth = near, far_depth = far,
\* neutral_depth = (near + far) / 2 and scale = 1; set_neutral_depth and
\* set_scale each replace their own field only
C15_Plugin ==
    /\ IsCall("ParallaxPlugin_new") =>
          IF RGe(call.in[1], call.in[2])
          THEN call.out = PluginPanic
          ELSE /\ call.out # PluginPanic
               /\ call.out.near_depth = call.in[1]
               /\ call.out.far_depth = call.in[2]
               /\ RMul(call.out.neutral_depth, Two) = RAdd(call.in[1], call.in[2])
               /\ call.out.scale = One
    /\ IsCall("set_neutral_depth") =>
          /\ call.out.neutral_depth = call.in[2]
          /\ call.out.scale = call.in[1].scale
          /\ call.out.near_depth = call.in[1].near_depth
          /\ call.out.far_depth = call.in[1].far_depth
    /\ IsCall("set_scale") =>
          /\ call.out.scale = call.in[2]
          /\ call.out.neutral_depth = call.in[1].neutral_depth
          /\ call.out.near_depth = call.in[1].near_depth
          /\ call.out.far_depth = call.in[1].far_depth

\* tests::plugin_new: new(0, 1).set_neutral_depth(-1).set_scale(-5)
C15_Witness ==
    /\ IsCall("set_scale")
    /\ call.in[1] = set_neutral_depth(ParallaxPlugin_new(Zero, One), IntR(-1))
    /\ call.out = ParallaxConfig(IntR(-5), Zero, IntR(-1), One)

\* C16: ParallaxContext::new stores near_depth = neutral - near and
\* far_depth = neutral - far when the config has near_depth < far_depth, the
\* stored near then being strictly greater than the stored far, and stores
\* both bounds unchanged otherwise; neutral_depth and scale are stored
\* unchanged; the defaults (-10, 0, 100) give near 10 and far -100, and
\* (near 0, neutral -1, far 1) gives near -1 and far -2
C16_ContextNew ==
    IsCall("ParallaxContext_new") =>
        LET c == call.in
        IN  /\ call.out.neutral_depth = c.neutral_depth
            /\ call.out.scale = c.scale
            /\ IF RLt(c.near_depth, c.far_depth)
               THEN /\ call.out.near_depth = RSub(c.neutral_depth, c.near_depth)
                    /\ call.out.far_depth = RSub(c.neutral_depth, c.far_depth)
                    /\ RGt(call.out.near_depth, call.out.far_depth)
               ELSE /\ call.out.near_depth = c.near_depth
                    /\ call.out.far_depth = c.far_depth
            /\ c = ParallaxConfig(One, IntR(-10), Zero, IntR(100)) =>
                  call.out.near_depth = IntR(10) /\ call.out.far_depth = IntR(-100)
            /\ (c.near_depth = Zero /\ c.neutral_depth = IntR(-1) /\ c.far_depth = One) =>
                  call.out.near_depth = IntR(-1) /\ call.out.far_depth = IntR(-2)

\* tests::resources_new_context: scale -5, near 0, neutral -1, far 1
C16_Witness ==
    /\ IsCall("ParallaxContext_new")
    /\ call.in = ParallaxConfig(IntR(-5), Zero, IntR(-1), One)
    /\ call.out = ParallaxConfig(IntR(-5), IntR(-1), IntR(-1), IntR(-2))

\* the context was built from author bounds near < far: ParallaxContext::new
\* has reversed them
FromAuthorBounds == RGt(context.near_depth, context.far_depth)

\* C21: under a context built from author bounds near < far with scale 1,
\* FACTOR_MIN <= calculate_depth_factor(w) <= FACTOR_MAX for every world
\* depth w; the interpolation branch yields neither a negative value nor one
\* above FACTOR_MAX
C21_FactorWithinCaps ==
    (IsCall("calculate_depth_factor") /\ FromAuthorBounds /\ context.scale = One) =>
        /\ RLe(IntR(DEPTH_FACTOR_MIN), call.out)
        /\ RLe(call.out, IntR(DEPTH_FACTOR_MAX))

\* the same with a stored near_depth > 0 and world depths up to
\* near_depth * (1 - 1 / FACTOR_MAX), or at and beyond the near plane
C21_FactorWithinCapsAwayFromNear ==
    (IsCall("calculate_depth_factor") /\ FromAuthorBounds /\ context.scale = One
        /\ RGt(context.near_depth, Zero)
        /\ \/ RLe(call.in, RMul(context.near_depth, Rat(DEPTH_FACTOR_MAX - 1, DEPTH_FACTOR_MAX)))
           \/ RGe(call.in, context.near_depth)) =>
        /\ RLe(IntR(DEPTH_FACTOR_MIN), call.out)
        /\ RLe(call.out, IntR(DEPTH_FACTOR_MAX))

-----------------------------------------------------------------------------
(* Properties of the application, checked under Spec.                      *)

\* C1: when a motion pass is about to process the layers, every layer it
\* processes has been placed: none carries a depth that is still an
\* unresolved Parallax value
C1_PlacementBeforeMotion ==
    (pc = "PostUpdate" /\ cameras = 1) =>
        \A i \in Indices :
            HasParallaxLayerData(layers[i]) => layers[i].depth.tag = "WorldWithFactor"

\* the Z the claim C9 gives a layer: the value of its depth, resolved
ResolvedDepthValue(e) == depth(to_world_with_factor(e.depth, context))

\* C9: after every motion pass each layer's position is
\* translation_with_depth_and_flags(camera, depth, flags) + offset and its Z
\* is the layer's resolved world depth value
C9_AfterMotion ==
    [][(pc = "PostUpdate" /\ pc' = "Main") =>
        \A i \in 1..Len(layers') :
            HasParallaxLayerData(layers'[i]) =>
                layers'[i].transform[1].translation =
                    Vec3(VAdd(translation_with_depth_and_flags(
                                  camera_translation', layers'[i].depth, layers'[i].flags),
                              layers'[i].offset),
                         ResolvedDepthValue(layers'[i]))]_vars

\* the same with the layers that were placed before the pass only
C9_AfterMotionOfPlacedLayers ==
    [][(pc = "PostUpdate" /\ pc' = "Main") =>
        \A i \in 1..Len(layers') :
            layers'[i].stage = "Placed" =>
                layers'[i].transform[1].translation =
                    Vec3(VAdd(translation_with_depth_and_flags(
                                  camera_translation', layers'[i].depth, layers'[i].flags),
                              layers'[i].offset),
                         ResolvedDepthValue(layers'[i]))]_vars

\* C14: a placement pass or a motion pass that runs while the number of
\* ParallaxCamera entities is not one panics without writing any layer,
\* however many layers exist; with exactly one camera the camera check does
\* not fail
C14_CameraCheck ==
    [][(process_new_parallax_layer_data \/ move_parallax_layers) =>
        IF cameras # 1
        THEN pc' = CameraPanic /\ layers' = layers
        ELSE pc' # CameraPanic]_vars

\* a motion pass has panicked on two cameras, with a placed layer in the
\* world, after a placement pass that ran with one camera
C14_Witness ==
    /\ pc = CameraPanic
    /\ cameras = 2
    /\ "process_new_parallax_layer_data" \in ran
    /\ \E i \in Indices : layers[i].stage = "Placed"

\* the layer has not been placed: its depth is an unresolved Parallax value
Unresolved(e) == e.depth.tag = "Parallax"

\* C22: despawn_front_layer and despawn_back_layer never remove a layer whose
\* depth is still unresolved: every such layer is left in place, unchanged,
\* and with unresolved layers only the command changes nothing
C22_UnresolvedNotDespawned ==
    [][(despawn_front_layer \/ despawn_back_layer) =>
        /\ \A i \in Indices :
              Unresolved(layers[i]) => \E k \in 1..Len(layers') : layers'[k] = layers[i]
        /\ (\A i \in Indices : Unresolved(layers[i])) => layers' = layers]_vars

\* two layers were spawned and a despawn command has removed one of them
\* while the other, loaded but not placed, was unresolved: it is still there
C22_Witness ==
    /\ pc = "Main"
    /\ spawned = 2 /\ Len(layers) = 1
    /\ layers[1].stage = "ParallaxLayerData"
    /\ Unresolved(layers[1])

-----------------------------------------------------------------------------
(* Properties of the despawn commands, checked under CommandsSpec.         *)

AllResolved(ls) == \A i \in 1..Len(ls) : ls[i].depth.tag = "WorldWithFactor"

\* the layer at k is removed from ls and every other layer remains, unchanged
RemovedOnly(ls, k, after) == k \in 1..Len(ls) /\ after = RemoveAt(ls, k)

IsMaximum(ls, k) == \A j \in 1..Len(ls) : RLe(depth(ls[j].depth), depth(ls[k].depth))
IsMinimum(ls, k) == \A j \in 1..Len(ls) : RGe(depth(ls[j].depth), depth(ls[k].depth))

\* the sentinels the scans start from are not among the depths of ls
InsideSentinels(ls) ==
    \A i \in 1..Len(ls) :
        /\ RGt(depth(ls[i].depth), IntR(-F32_MAX))
        /\ RLt(depth(ls[i].depth), IntR(F32_MAX))

\* C11: on a non-empty set of resolved layers despawn_front_layer removes
\* exactly one layer, one whose depth value is the maximum, and
\* despawn_back_layer exactly one, one whose depth value is the minimum; every
\* other layer remains, unchanged
C11_DespawnExtreme ==
    [][(layers # <<>> /\ AllResolved(layers)) =>
        /\ Command_despawn_front_layer =>
              \E k \in 1..Len(layers) :
                  RemovedOnly(layers, k, layers') /\ IsMaximum(layers, k)
        /\ Command_despawn_back_layer =>
              \E k \in 1..Len(layers) :
                  RemovedOnly(layers, k, layers') /\ IsMinimum(layers, k)]_vars

\* the same for layers whose depth values lie strictly between f32::MIN and
\* f32::MAX
C11_DespawnExtremeInsideSentinels ==
    [][(layers # <<>> /\ AllResolved(layers) /\ InsideSentinels(layers)) =>
        /\ Command_despawn_front_layer =>
              \E k \in 1..Len(layers) :
                  RemovedOnly(layers, k, layers') /\ IsMaximum(layers, k)
        /\ Command_despawn_back_layer =>
              \E k \in 1..Len(layers) :
                  RemovedOnly(layers, k, layers') /\ IsMinimum(layers, k)]_vars

\* C12: each despawn command, front or back, removes exactly one layer of a
\* non-empty set of resolved layers, so that after n commands none of the n
\* layers of the batch is left; on an empty set a command changes nothing and
\* does not fail
C12_DespawnSequence ==
    [][((Command_despawn_front_layer \/ Command_despawn_back_layer)
            /\ AllResolved(call.batch)) =>
        /\ IF layers = <<>>
           THEN layers' = <<>> /\ pc' = pc
           ELSE Len(layers') = Len(layers) - 1
        /\ call'.applied >= call.n => layers' = <<>>]_vars

\* the same for batches whose depth values lie strictly between f32::MIN and
\* f32::MAX
C12_DespawnSequenceInsideSentinels ==
    [][((Command_despawn_front_layer \/ Command_despawn_back_layer)
            /\ AllResolved(call.batch) /\ InsideSentinels(call.batch)) =>
        /\ IF layers = <<>>
           THEN layers' = <<>> /\ pc' = pc
           ELSE Len(layers') = Len(layers) - 1
        /\ call'.applied >= call.n => layers' = <<>>]_vars

\* the batch [10, -12, 0, 4] of tests::commands_despawn_alternate_layer emptied
\* by four commands, and a fifth, despawn_back_layer, applied to the empty set
C12_EmptiedBatch ==
    /\ call.op = "despawn_back_layer"
    /\ [i \in 1..Len(call.batch) |-> depth(call.batch[i].depth)]
            = <<IntR(10), IntR(-12), Zero, IntR(4)>>
    /\ call.applied = 5
    /\ layers = <<>>

\* C13: when several resolved layers share the maximum (despawn_front_layer)
\* or the minimum (despawn_back_layer) depth value, the layer a command
\* removes is the first of them in iteration order: no layer before it has
\* the same depth value
C13_FirstOfTies ==
    [][AllResolved(layers) =>
        \A k \in 1..Len(layers) :
            /\ (Command_despawn_front_layer /\ RemovedOnly(layers, k, layers')) =>
                  /\ IsMaximum(layers, k)
                  /\ \A j \in 1..(k - 1) : depth(layers[j].depth) # depth(layers[k].depth)
            /\ (Command_despawn_back_layer /\ RemovedOnly(layers, k, layers')) =>
                  /\ IsMinimum(layers, k)
                  /\ \A j \in 1..(k - 1) : depth(layers[j].depth) # depth(layers[k].depth)]_vars

\* the batch [4, 10, 4, 10]: despawn_front_layer has removed the second layer
\* and then despawn_back_layer the first, the fourth and the third are left
C13_Witness ==
    /\ call.op = "despawn_back_layer" /\ call.applied = 2
    /\ [i \in 1..Len(call.batch) |-> depth(call.batch[i].depth)]
            = <<IntR(4), IntR(10), IntR(4), IntR(10)>>
    /\ [i \in 1..Len(layers) |-> layers[i].id] = <<3, 4>>

-----------------------------------------------------------------------------
(* Properties of placement and motion, checked under PlacementSpec.        *)

\* a motion pass over the layer, placed before the pass
MotionOfPlacedLayer ==
    /\ pc = "PostUpdate" /\ pc' = "Main"
    /\ layers # <<>> /\ layers[1].stage = "Placed"

\* the x and y of the Transform of the layer
Position(e) == Vec2(e.transform[1].translation.x, e.transform[1].translation.y)

\* C17: a layer placed without OFFSET_TO_CAMERA, whatever its depth factor and
\* its lock and repeat flags, is put at its authored offset by every motion
\* pass that finds the camera at that authored offset
C17_CentredAtOffset ==
    [][(MotionOfPlacedLayer
            /\ ~contains(call.layer.flags, OFFSET_TO_CAMERA)
            /\ camera_translation = call.layer.offset) =>
        Position(layers'[1]) = call.layer.offset]_vars

\* a layer with flags NONE, authored at (2,-1) with a factor that is neither
\* 0 nor 1, stands at (2,-1) with the camera, its stored offset being another
C17_Witness ==
    /\ pc = "Main" /\ layers # <<>> /\ layers[1].stage = "Placed"
    /\ call.layer.flags = NONE
    /\ call.layer.offset = VInt(2, -1)
    /\ layers[1].depth.factor \notin {Zero, One}
    /\ layers[1].offset # call.layer.offset
    /\ camera_translation = VInt(2, -1)
    /\ Position(layers[1]) = VInt(2, -1)

\* a placement pass that places the layer
PlacementOfLayer ==
    /\ layers # <<>> /\ layers[1].stage = "ParallaxLayerData"
    /\ layers' # <<>> /\ layers'[1].stage = "Placed"

\* the rendered size of a placed layer: the scale of its Transform
Rendered(e) == e.transform[1].scale

\* +1 with POSITIVE_OFFSET, -1 without
AnchorSign(flags) == IF contains(flags, POSITIVE_OFFSET) THEN One ELSE IntR(-1)

\* C18: placing a layer with OFFSET_TO_CAMERA shifts the stored offset along
\* the designated axis only (X with HORIZONTAL_OFFSET, else Y), by
\* (viewport size - rendered size) / 2, added with POSITIVE_OFFSET and
\* subtracted without, by zero if that axis repeats; and a motion pass that
\* finds the camera at the authored offset puts the right/top edge of the
\* layer (with POSITIVE_OFFSET) or its left/bottom edge (without) on the
\* same edge of the viewport
C18_AnchoredToEdge ==
    [][(call.op = "spawn" /\ contains(call.layer.flags, OFFSET_TO_CAMERA)) =>
        LET flags == call.layer.flags
            e == layers'[1]
            sign == AnchorSign(flags)
            horizontal == contains(flags, HORIZONTAL_OFFSET)
            unshifted == VSub(call.layer.offset,
                              translation_with_depth_and_flags(call.layer.offset, e.depth, flags))
            shift == VSub(e.offset, unshifted)
            delta == VDiv(VSub(CameraSize, Rendered(e)), Vec2(Two, Two))
            \* the edge of a box centred at c of size sz, on the side of sign
            edge(c, sz) == RAdd(c, RMul(sign, RDiv(sz, Two)))
        IN  /\ PlacementOfLayer =>
                /\ shift.x = IF horizontal THEN RMul(sign, delta.x) ELSE Zero
                /\ shift.y = IF horizontal THEN Zero ELSE RMul(sign, delta.y)
                /\ (horizontal /\ contains(flags, REPEAT_X_AXIS)) => shift = VecZERO
                /\ (~horizontal /\ contains(flags, REPEAT_Y_AXIS)) => shift = VecZERO
            /\ (MotionOfPlacedLayer /\ camera_translation = call.layer.offset) =>
                /\ horizontal =>
                      /\ edge(Position(e).x, Rendered(e).x) = edge(camera_translation.x, CameraSize.x)
                      /\ Position(e).y = call.layer.offset.y
                /\ ~horizontal =>
                      /\ edge(Position(e).y, Rendered(e).y) = edge(camera_translation.y, CameraSize.y)
                      /\ Position(e).x = call.layer.offset.x]_vars

\* a layer of width 10 authored at (2,-1) with OFFSET_CAMERA_RIGHT, no axis
\* repeating, stands at x = 1 when the camera of width 8 is at (2,-1): its
\* right edge and that of the viewport are both at x = 6
C18_Witness ==
    /\ pc = "Main" /\ layers # <<>> /\ layers[1].stage = "Placed"
    /\ call.layer.flags = OFFSET_CAMERA_RIGHT
    /\ call.layer.offset = VInt(2, -1)
    /\ camera_translation = VInt(2, -1)
    /\ Rendered(layers[1]) = VInt(10, 3)
    /\ Position(layers[1]) = VInt(1, -1)

\* the z of the Transform the layer was spawned with, 0 without one
SpawnedZ(l) == IF l.transform = None THEN Zero ELSE l.transform[1]

\* C19: a placed layer that was spawned with a Transform of z-value z0 has
\* the Z of its resolved world depth offset by z0, and the depth factor it
\* would have with z0 = 0
C19_TransformZOffset ==
    (call.op = "spawn" /\ layers # <<>> /\ layers[1].stage = "Placed") =>
        LET resolved == to_world_with_factor(call.layer.depth, context)
        IN  /\ layers[1].transform[1].translation.z
                    = RAdd(depth(resolved), SpawnedZ(call.layer))
            /\ depth_factor(layers[1].depth) = depth_factor(resolved)

\* what the code does with z0: the Z of a placed layer is its resolved world
\* depth, whatever Transform it was spawned with, and so is its depth factor
C19_TransformZIgnored ==
    (call.op = "spawn" /\ layers # <<>> /\ layers[1].stage = "Placed") =>
        LET resolved == to_world_with_factor(call.layer.depth, context)
        IN  /\ layers[1].transform[1].translation.z = depth(resolved)
            /\ depth_factor(layers[1].depth) = depth_factor(resolved)

\* the layer was authored at the neutral depth of the context
AuthoredAtNeutralDepth ==
    /\ call.op = "spawn"
    /\ call.layer.depth = from_parallax(context.neutral_depth)

\* on every axis that does not repeat the layer stands at its stored offset
AtStoredOffset(e) ==
    /\ ~contains(e.flags, REPEAT_X_AXIS) => Position(e).x = e.offset.x
    /\ ~contains(e.flags, REPEAT_Y_AXIS) => Position(e).y = e.offset.y

\* C20 as stated: under every plugin configuration, whatever its neutral
\* depth and its scale, a layer authored at the neutral depth stands at its
\* stored offset on every non-repeating axis after each motion pass, wherever
\* the camera is
C20_NeutralStationary ==
    [][(MotionOfPlacedLayer /\ AuthoredAtNeutralDepth) =>
        AtStoredOffset(layers'[1])]_vars

\* the same under a plugin configuration with scale = 1 and
\* near_depth < neutral_depth < far_depth (stored: far_depth < 0 < near_depth),
\* a layer authored at the neutral depth stands at its stored offset on every
\* non-repeating axis after each motion pass, wherever the camera is
C20_NeutralStationaryAtUnitScale ==
    [][(MotionOfPlacedLayer /\ AuthoredAtNeutralDepth
            /\ context.scale = One
            /\ RLt(context.far_depth, Zero) /\ RLt(Zero, context.near_depth)) =>
        AtStoredOffset(layers'[1])]_vars

\* and for every context of FnSpec: with scale = 1 and the
\* neutral depth strictly between the bounds, the neutral depth resolves to
\* world depth 0 with factor 1
C20_NeutralFactorIsOne ==
    (IsCall("to_world_with_factor")
        /\ call.in = from_parallax(context.neutral_depth)
        /\ context.scale = One
        /\ RLt(context.far_depth, Zero) /\ RLt(Zero, context.near_depth)) =>
            call.out = WorldWithFactor(Zero, One)

-----------------------------------------------------------------------------
(* The layer record after placement, checked under Spec.                   *)

\* the ParallaxLayerData of an entity
Record(e) == [depth |-> e.depth, offset |-> e.offset, flags |-> e.flags]

\* C23: a layer is placed once and its record is read-only from then on: no
\* step, and so no motion pass wherever the camera is, changes the stored
\* offset, the resolved depth (value and factor) or the flags of a placed
\* layer or places it again; a motion pass writes nothing but the
\* translation of the Transform of a layer
C23_ReadOnlyAfterPlacement ==
    [][/\ \A i \in Indices : \A k \in 1..Len(layers') :
            (layers[i].stage = "Placed" /\ layers'[k].id = layers[i].id) =>
                /\ layers'[k].stage = "Placed"
                /\ Record(layers'[k]) = Record(layers[i])
       /\ move_parallax_layers =>
            /\ Len(layers') = Len(layers)
            /\ \A i \in Indices :
                  /\ [layers'[i] EXCEPT !.transform = None]
                        = [layers[i] EXCEPT !.transform = None]
                  /\ HasParallaxLayerData(layers[i]) =>
                        layers'[i].transform[1].scale = layers[i].transform[1].scale]_vars

\* the layer authored with depth Parallax(20), offset (2,-1) and flags NONE,
\* placed, and moved by a motion pass with the camera at (-4,3) to a position
\* that is not its stored offset; its record is what placement made it
C23_Witness ==
    /\ pc = "Main"
    /\ camera_translation = VInt(-4, 3)
    /\ \E i \in Indices :
          /\ layers[i].stage = "Placed"
          /\ layers[i].flags = NONE
          /\ layers[i].depth = to_world_with_factor(from_parallax(IntR(20)), context)
          /\ layers[i].offset =
                VSub(VInt(2, -1),
                     translation_with_depth_and_flags(VInt(2, -1), layers[i].depth, NONE))
          /\ Position(layers[i]) =
                VAdd(translation_with_depth_and_flags(camera_translation, layers[i].depth, NONE),
                     layers[i].offset)
          /\ Position(layers[i]) # layers[i].offset

=============================================================================
